---------------------------- MODULE Spec2Model ----------------------------
(***************************************************************************)
(* A model of the graphing tool: the expression sampler (graphUtils), the  *)
(* viewport held by GraphingTool, the zoom controls of GraphControls and   *)
(* the pan / click / redraw handlers of GraphDisplay.                      *)
(*                                                                         *)
(* JavaScript numbers are modelled exactly: a finite number is a           *)
(* normalised fraction n/d, and NaN, +Infinity and -Infinity are their own *)
(* values.  Rounding of IEEE doubles is not modelled.                      *)
(***************************************************************************)
EXTENDS Integers, Sequences, FiniteSets, TLC

VARIABLES
    viewport,      \* GraphingTool state: [center |-> [x, y], zoom]
    zoomLevel,     \* GraphingTool state: the zoomLevel passed to GraphDisplay
    size,          \* GraphDisplay state: [width, height] of the canvas
    dragStart,     \* GraphDisplay state: [x, y, startCenter]
    equations,     \* GraphingTool state: sequence of equation objects
    nextId,        \* ids handed out so far (crypto.randomUUID is fresh each call)
    tangentPoint,  \* GraphDisplay state: NoTangent or a tangent record
    lastEvent,     \* the handler that ran last, with its arguments
    steps,         \* the number of handlers run so far
    gen,           \* one generatePoints call, iteration by iteration
    call           \* one call of a pure function, with its arguments and result

vars == <<viewport, zoomLevel, size, dragStart, equations, nextId,
          tangentPoint, lastEvent, steps, gen, call>>

-----------------------------------------------------------------------------
(* Exact fractions *)

Abs(i) == IF i < 0 THEN -i ELSE i

RECURSIVE Gcd(_, _)
Gcd(a, b) == IF b = 0 THEN a ELSE Gcd(b, a % b)

(* JavaScript number values.  k is the kind; n/d is the value of a finite one. *)
NaN    == [k |-> "nan",  n |-> 0, d |-> 1]
PosInf == [k |-> "inf",  n |-> 1, d |-> 1]
NegInf == [k |-> "ninf", n |-> -1, d |-> 1]
null   == [k |-> "null", n |-> 0, d |-> 1]

Frac(n, d) ==
    LET s == IF d < 0 THEN -1 ELSE 1
        g == Gcd(Abs(n), Abs(d))
    IN  [k |-> "num", n |-> (s * n) \div g, d |-> (s * d) \div g]

Num(i) == [k |-> "num", n |-> i, d |-> 1]

IsNum(a) == a.k = "num"
isNaN(a) == a.k = "nan"
IsInf(a) == a.k \in {"inf", "ninf"}

(* the sign of a value other than NaN: -1, 0 or 1 *)
Sgn(a) == IF a.n < 0 THEN -1 ELSE IF a.n > 0 THEN 1 ELSE 0

JNeg(a) ==
    CASE a.k = "num"  -> [a EXCEPT !.n = -a.n]
      [] a.k = "inf"  -> NegInf
      [] a.k = "ninf" -> PosInf
      [] OTHER        -> NaN

(* a + b *)
JAdd(a, b) ==
    CASE ~(a.k \in {"num", "inf", "ninf"}) \/ ~(b.k \in {"num", "inf", "ninf"}) -> NaN
      [] IsInf(a) /\ IsInf(b) -> IF a.k = b.k THEN a ELSE NaN
      [] IsInf(a) -> a
      [] IsInf(b) -> b
      [] OTHER ->
            LET g == Gcd(a.d, b.d)
                l == (a.d \div g) * b.d
            IN  Frac(a.n * (l \div a.d) + b.n * (l \div b.d), l)

(* a - b *)
JSub(a, b) == JAdd(a, JNeg(b))

(* a * b *)
JMul(a, b) ==
    CASE ~(a.k \in {"num", "inf", "ninf"}) \/ ~(b.k \in {"num", "inf", "ninf"}) -> NaN
      [] IsInf(a) \/ IsInf(b) ->
            IF Sgn(a) * Sgn(b) = 0 THEN NaN
            ELSE IF Sgn(a) * Sgn(b) > 0 THEN PosInf ELSE NegInf
      [] OTHER ->
            LET g1 == Gcd(Abs(a.n), b.d)
                g2 == Gcd(Abs(b.n), a.d)
            IN  Frac((a.n \div g1) * (b.n \div g2), (a.d \div g2) * (b.d \div g1))

(* a / b; a finite number over zero is an infinity, 0/0 is NaN *)
JDiv(a, b) ==
    CASE ~(a.k \in {"num", "inf", "ninf"}) \/ ~(b.k \in {"num", "inf", "ninf"}) -> NaN
      [] IsInf(a) /\ IsInf(b) -> NaN
      [] IsInf(a) -> IF Sgn(b) < 0 THEN JNeg(a) ELSE a
      [] IsInf(b) -> Num(0)
      [] b.n = 0 -> IF a.n = 0 THEN NaN ELSE IF a.n > 0 THEN PosInf ELSE NegInf
      [] OTHER -> JMul(a, Frac(b.d, b.n))

JAbs(a) ==
    CASE a.k = "num"  -> [a EXCEPT !.n = Abs(a.n)]
      [] a.k = "ninf" -> PosInf
      [] OTHER        -> a

(* a < b; every comparison with NaN is false *)
JLt(a, b) ==
    CASE ~(a.k \in {"num", "inf", "ninf"}) \/ ~(b.k \in {"num", "inf", "ninf"}) -> FALSE
      [] a.k = "inf"  -> FALSE
      [] b.k = "ninf" -> FALSE
      [] a.k = "ninf" -> TRUE
      [] b.k = "inf"  -> TRUE
      [] OTHER ->
            \* integer parts first, then the fractional parts over a common
            \* denominator: the products stay small
            LET fa == a.n \div a.d
                fb == b.n \div b.d
                g  == Gcd(a.d, b.d)
            IN  IF fa # fb THEN fa < fb
                ELSE (a.n % a.d) * (b.d \div g) < (b.n % b.d) * (a.d \div g)

JGt(a, b) == JLt(b, a)
JLe(a, b) == (IsNum(a) \/ IsInf(a)) /\ (IsNum(b) \/ IsInf(b)) /\ ~JLt(b, a)

(* Math.max and Math.min of two numbers; NaN if either is NaN *)
MathMax(a, b) == IF isNaN(a) \/ isNaN(b) THEN NaN ELSE IF JLt(a, b) THEN b ELSE a
MathMin(a, b) == IF isNaN(a) \/ isNaN(b) THEN NaN ELSE IF JLt(b, a) THEN b ELSE a

-----------------------------------------------------------------------------
(* Expressions are strings, modelled as sequences of characters. *)

Digits == {"0", "1", "2", "3", "4", "5", "6", "7", "8", "9"}

RECURSIVE TrimStart(_)
TrimStart(s) == IF s # <<>> /\ Head(s) = " " THEN TrimStart(Tail(s)) ELSE s

RECURSIVE TrimEnd(_)
TrimEnd(s) ==
    IF s # <<>> /\ s[Len(s)] = " " THEN TrimEnd(SubSeq(s, 1, Len(s) - 1)) ELSE s

(* String.prototype.trim *)
Trim(s) == TrimEnd(TrimStart(s))

(* The expressions of the model. *)
E_x2    == <<"x", "^", "2">>
E_x     == <<"x">>
E_2x    == <<"2", "x">>
E_2mx   == <<"2", "*", "x">>
E_inv   == <<"1", "/", "x">>
E_step  == <<"9", "0", "0", "0", "0", "0", "*", "s", "i", "g", "n", "(",
             "x", "-", "0", ".", "0", "0", "5", ")">>
E_bad   == <<"x", "+">>
E_undef == <<"y">>
E_xd    == <<"x", "2">>
E_one   == <<"1">>
E_empty == <<>>
E_blank == <<" ">>

(* math.parse: the expressions of the model that mathjs parses; "x+" is a   *)
(* SyntaxError (unexpected end of expression).                              *)
MathParses(e) ==
    e \in {E_x2, E_x, E_2x, E_2mx, E_inv, E_step, E_undef, E_xd, E_one}

(* node.evaluate({x}) throws "Undefined symbol" for a symbol other than x   *)
(* that is no mathjs name: y, and x2 (one symbol, not x^2 nor x*2).         *)
MathEvalThrows(e) == e \in {E_undef, E_xd}

(* mathjs sign(v) *)
MathSign(v) == IF isNaN(v) THEN NaN ELSE Num(Sgn(v))

(* node.evaluate({x}) of an expression that parses and does not throw *)
MathEvaluate(e, x) ==
    CASE e = E_x2   -> JMul(x, x)
      [] e = E_x    -> x
      [] e = E_2x   -> JMul(Num(2), x)
      [] e = E_2mx  -> JMul(Num(2), x)
      [] e = E_inv  -> JDiv(Num(1), x)
      [] e = E_step -> JMul(Num(900000), MathSign(JSub(x, Frac(5, 1000))))
      [] e = E_one  -> Num(1)
      [] OTHER      -> NaN

(* evaluateExpression: the value, or NaN when parse or evaluate throws *)
evaluateExpression(expression, x) ==
    IF ~MathParses(expression) \/ MathEvalThrows(expression)
    THEN NaN
    ELSE MathEvaluate(expression, x)

-----------------------------------------------------------------------------
(* generatePoints *)

MAX_POINTS == 1000
DISCONTINUITY_THRESHOLD == 1000000

(* the loop's variables before the first test of its condition; evals      *)
(* counts the calls of evaluateExpression                                   *)
GenInit(expression, min, max, step) ==
    [expression |-> expression, min |-> min, max |-> max, step |-> step, x |-> min,
     points |-> <<>>, previousY |-> null, evals |-> 0]

(* the loop condition with max excluded *)
GenCondExclusive(g) == JLt(g.x, g.max) /\ Len(g.points) < MAX_POINTS

(* the loop condition: x <= max && points.length < MAX_POINTS *)
GenCond(g) == JLe(g.x, g.max) /\ Len(g.points) < MAX_POINTS

(* the NaN marker pushed at a jump *)
BreakPoint(x) == [x |-> x, y |-> NaN]

(* the loop body with the NaN marker pushed after the valid point *)
GenBodyMarkerLast(g) ==
    LET y == evaluateExpression(g.expression, g.x)
        next == JAdd(g.x, g.step)
    IN  IF isNaN(y) \/ JGt(JAbs(y), Num(DISCONTINUITY_THRESHOLD))
        THEN [g EXCEPT !.previousY = null, !.x = next, !.evals = @ + 1]
        ELSE LET jump == /\ g.previousY # null
                         /\ JGt(JAbs(JSub(y, g.previousY)),
                                Num(DISCONTINUITY_THRESHOLD))
                 pts  == Append(g.points, [x |-> g.x, y |-> y])
             IN  [g EXCEPT !.points = IF jump THEN Append(pts, BreakPoint(g.x))
                                              ELSE pts,
                           !.previousY = y, !.x = next, !.evals = @ + 1]

(* the loop body with the NaN marker pushed in place of the valid point *)
GenBodyMarkerForPoint(g) ==
    LET y == evaluateExpression(g.expression, g.x)
        next == JAdd(g.x, g.step)
    IN  IF isNaN(y) \/ JGt(JAbs(y), Num(DISCONTINUITY_THRESHOLD))
        THEN [g EXCEPT !.previousY = null, !.x = next, !.evals = @ + 1]
        ELSE LET jump == /\ g.previousY # null
                         /\ JGt(JAbs(JSub(y, g.previousY)),
                                Num(DISCONTINUITY_THRESHOLD))
             IN  [g EXCEPT !.points = IF jump THEN Append(@, BreakPoint(g.x))
                                              ELSE Append(@, [x |-> g.x, y |-> y]),
                           !.previousY = y, !.x = next, !.evals = @ + 1]

(* one pass through the loop body, with the x += step that follows it *)
GenBody(g) ==
    LET y == evaluateExpression(g.expression, g.x)
        next == JAdd(g.x, g.step)
    IN  IF isNaN(y) \/ JGt(JAbs(y), Num(DISCONTINUITY_THRESHOLD))
        THEN [g EXCEPT !.previousY = null, !.x = next, !.evals = @ + 1]
        ELSE LET jump == /\ g.previousY # null
                         /\ JGt(JAbs(JSub(y, g.previousY)),
                                Num(DISCONTINUITY_THRESHOLD))
                 pts  == IF jump THEN Append(g.points, BreakPoint(g.x))
                                 ELSE g.points
             IN  [g EXCEPT !.points = Append(pts, [x |-> g.x, y |-> y]),
                           !.previousY = y, !.x = next, !.evals = @ + 1]

(* the loop condition and, when it holds, the body and x += step *)
GenIteration(g) == IF GenCond(g) THEN GenBody(g) ELSE g

(* n >= 1 iterations of the loop, or fewer if it exits before; the         *)
(* iterations are run in two halves to keep the evaluation shallow         *)
RECURSIVE GenIterate(_, _)
GenIterate(g, n) ==
    IF n = 1 THEN GenIteration(g)
    ELSE LET half == GenIterate(g, n \div 2)
         IN  IF GenCond(half) THEN GenIterate(half, n - (n \div 2)) ELSE half

(* the loop from a state of its variables to its exit *)
RECURSIVE GenLoop(_)
GenLoop(g) ==
    LET after == GenIterate(g, 1024)
    IN  IF GenCond(after) THEN GenLoop(after) ELSE after

(* the array generatePoints returns *)
generatePoints(expression, min, max, step) ==
    IF Trim(expression) = <<>> THEN <<>>
    ELSE GenLoop(GenInit(expression, min, max, step)).points

-----------------------------------------------------------------------------
(* GraphDisplay: bounds, coordinate transforms, derivative, drawing *)

(* calculateBounds with the aspect ratio left out of the height *)
calculateBoundsSquare(vp, sz) ==
    LET viewWidth == JDiv(Num(20), vp.zoom)
    IN  [xMin |-> JSub(vp.center.x, JDiv(viewWidth, Num(2))),
         xMax |-> JAdd(vp.center.x, JDiv(viewWidth, Num(2))),
         yMin |-> JSub(vp.center.y, JDiv(viewWidth, Num(2))),
         yMax |-> JAdd(vp.center.y, JDiv(viewWidth, Num(2)))]

(* calculateBounds, from the viewport and the canvas size *)
calculateBounds(vp, sz) ==
    LET aspect     == JDiv(Num(sz.height), Num(sz.width))
        viewWidth  == JDiv(Num(20), vp.zoom)
        viewHeight == JMul(viewWidth, aspect)
    IN  [xMin |-> JSub(vp.center.x, JDiv(viewWidth, Num(2))),
         xMax |-> JAdd(vp.center.x, JDiv(viewWidth, Num(2))),
         yMin |-> JSub(vp.center.y, JDiv(viewHeight, Num(2))),
         yMax |-> JAdd(vp.center.y, JDiv(viewHeight, Num(2)))]

(* scaleX: graph x to pixel x *)
scaleX(x, bounds, sz) ==
    JMul(JDiv(JSub(x, bounds.xMin), JSub(bounds.xMax, bounds.xMin)),
         Num(sz.width))

(* scaleY without the inversion of the axis *)
scaleYNotInverted(y, bounds, sz) ==
    JMul(JDiv(JSub(y, bounds.yMin), JSub(bounds.yMax, bounds.yMin)),
         Num(sz.height))

(* scaleY: graph y to pixel y, the axis inverted *)
scaleY(y, bounds, sz) ==
    JSub(Num(sz.height),
         JMul(JDiv(JSub(y, bounds.yMin), JSub(bounds.yMax, bounds.yMin)),
              Num(sz.height)))

(* canvasToGraphCoords: pixel to graph coordinates *)
canvasToGraphCoords(canvasX, canvasY, bounds, sz) ==
    [x |-> JAdd(bounds.xMin,
                JMul(JDiv(canvasX, Num(sz.width)),
                     JSub(bounds.xMax, bounds.xMin))),
     y |-> JSub(bounds.yMax,
                JMul(JDiv(canvasY, Num(sz.height)),
                     JSub(bounds.yMax, bounds.yMin)))]

(* the default h = 0.0001 of calculateDerivative *)
DerivativeH == Frac(1, 10000)

(* calculateDerivative.  evaluateExpression catches its own exceptions and *)
(* number arithmetic does not throw, so the catch that returns null is     *)
(* never entered: the result is the quotient, whatever y1 and y2 are.      *)
calculateDerivative(expression, x) ==
    LET y1 == evaluateExpression(expression, JSub(x, DerivativeH))
        y2 == evaluateExpression(expression, JAdd(x, DerivativeH))
    IN  JDiv(JSub(y2, y1), JMul(Num(2), DerivativeH))

(* The canvas path built by moveTo(points[0]) and a lineTo for each later  *)
(* point.  moveTo and lineTo return at once when an argument is NaN or     *)
(* infinite, and a lineTo on a path with no point yet only sets the pen.   *)
(* So each point that is on the canvas is joined to the nearest earlier    *)
(* point that is on the canvas.  A segment <<i, j>> joins points[i] and    *)
(* points[j].                                                              *)
OnCanvas(point, bounds, sz) ==
    IsNum(scaleX(point.x, bounds, sz)) /\ IsNum(scaleY(point.y, bounds, sz))

(* the pen when points[i + 1] is reached: the last point on the canvas     *)
(* among points[1..i], 0 if there is none                                  *)
RECURSIVE Pen(_, _, _, _)
Pen(points, i, bounds, sz) ==
    IF i = 0 THEN 0
    ELSE IF OnCanvas(points[i], bounds, sz) THEN i
    ELSE Pen(points, i - 1, bounds, sz)

PathSegments(points, bounds, sz) ==
    {<<Pen(points, j - 1, bounds, sz), j>> :
        j \in {i \in 2..Len(points) :
                  /\ OnCanvas(points[i], bounds, sz)
                  /\ Pen(points, i - 1, bounds, sz) # 0}}

(* the redraw effect's work for one equation: the points sampled and the   *)
(* segments stroked                                                        *)
DrawEquation(eq, bounds, zl, sz) ==
    IF ~eq.visible THEN [points |-> <<>>, segments |-> {}]
    ELSE LET points == generatePoints(eq.expression,
                                      JSub(bounds.xMin, Num(1)),
                                      JAdd(bounds.xMax, Num(1)),
                                      JDiv(Frac(2, 100), zl))
         IN  IF Len(points) < 2 THEN [points |-> points, segments |-> {}]
             ELSE [points |-> points,
                   segments |-> PathSegments(points, bounds, sz)]

(* the redraw effect: every equation of the list, in order *)
Redraw(eqs, vp, zl, sz) ==
    LET bounds == calculateBounds(vp, sz)
    IN  [i \in 1..Len(eqs) |-> DrawEquation(eqs[i], bounds, zl, sz)]

(* a JavaScript number in a condition: 0 and NaN are falsy *)
Truthy(a) == a # null /\ ~isNaN(a) /\ a # Num(0)

(* drawTangentLine: TRUE when it strokes the tangent line and fills the    *)
(* anchor point, FALSE when it returns before drawing                      *)
drawTangentLine(point) ==
    IF point = null \/ ~Truthy(point.derivative) THEN FALSE ELSE TRUE

(* the end of the redraw effect: the tangent line is drawn *)
RedrawTangent(tp, eqs) ==
    IF tp # null /\ Len(eqs) > 0 THEN drawTangentLine(tp) ELSE FALSE

(* the equation object addEquation builds *)
NewEquation(id, expression) ==
    [id |-> id, expression |-> expression, color |-> "#1E88E5",
     visible |-> TRUE, lineWidth |-> 2, lineStyle |-> "solid"]

-----------------------------------------------------------------------------
(* GraphingTool and GraphControls: the viewport and the zoom controls *)

MaxSteps == 5

(* every handler run is counted; the model stops after MaxSteps of them *)
Tick ==
    /\ steps < MaxSteps
    /\ steps' = steps + 1
    /\ UNCHANGED <<gen, call>>

(* ClampZoom with the upper limit left out *)
ClampZoomNoCeiling(newZoom) == MathMax(Frac(1, 2), newZoom)

(* Math.max(0.5, Math.min(2.0, newZoom)) *)
ClampZoom(newZoom) == MathMax(Frac(1, 2), MathMin(Num(2), newZoom))

(* the setZoomLevel prop setting a whole new viewport, centred *)
SetZoomLevelPropRecentred(prev, newZoom) ==
    [center |-> [x |-> Num(0), y |-> Num(0)], zoom |-> ClampZoom(newZoom)]

(* the setZoomLevel prop GraphingTool hands to GraphControls: only the     *)
(* viewport is updated, the zoomLevel state is not                          *)
SetZoomLevelProp(prev, newZoom) == [prev EXCEPT !.zoom = ClampZoom(newZoom)]

(* handleZoomChange(value): parseFloat, clamp, setZoomLevel *)
HandleZoomChange(value, how) ==
    /\ Tick
    /\ viewport' = SetZoomLevelProp(viewport, ClampZoom(value))
    /\ lastEvent' = [type |-> how, value |-> value]
    /\ UNCHANGED <<zoomLevel, size, dragStart, equations, nextId, tangentPoint>>

(* the range input's onChange *)
ZoomSlider(value) == HandleZoomChange(value, "slider")

(* the plus and minus buttons: the zoomLevel prop of GraphControls is       *)
(* viewport.zoom                                                            *)
ZoomPlus == HandleZoomChange(JAdd(viewport.zoom, Frac(1, 10)), "plus")
ZoomMinus == HandleZoomChange(JSub(viewport.zoom, Frac(1, 10)), "minus")

(* resetView: the viewport only *)
ResetViewport == [center |-> [x |-> Num(0), y |-> Num(0)], zoom |-> Num(1)]

ResetView ==
    /\ Tick
    /\ viewport' = ResetViewport
    /\ lastEvent' = [type |-> "reset"]
    /\ UNCHANGED <<zoomLevel, size, dragStart, equations, nextId, tangentPoint>>

(* handleViewportChange: setViewport and setZoomLevel *)
HandleViewportChange(newViewport) ==
    /\ viewport' = newViewport
    /\ zoomLevel' = newViewport.zoom

(* updateSize, on a resize of the container *)
UpdateSize(sz) ==
    /\ Tick
    /\ sz # size
    /\ size' = sz
    /\ lastEvent' = [type |-> "resize"]
    /\ UNCHANGED <<viewport, zoomLevel, dragStart, equations, nextId, tangentPoint>>

(* handleMouseDown at client pixel p *)
NoDrag == [x |-> 0, y |-> 0, startCenter |-> null]

(* lastEvent keeps, through the mouse events that follow a drag, where     *)
(* that drag went: its mouse-down pixel, the pixel of its last move and    *)
(* the center it started from; NoDragLog when no drag has just ended       *)
NoDragLog == [from |-> <<0, 0>>, to |-> <<0, 0>>, startCenter |-> null]

HandleMouseDown(p) ==
    /\ Tick
    /\ dragStart' = [x |-> p[1], y |-> p[2], startCenter |-> viewport.center]
    /\ lastEvent' = [type |-> "mousedown", x |-> p[1], y |-> p[2],
                     ended |-> IF lastEvent.type = "mouseup"
                               THEN lastEvent.ended ELSE NoDragLog]
    /\ UNCHANGED <<viewport, zoomLevel, size, equations, nextId, tangentPoint>>

(* the center of a move with the direction of the drag lost *)
PannedCenterUnsigned(ds, vp, sz, p) ==
    LET dx == JMul(Num(Abs(p[1] - ds.x)), JDiv(vp.zoom, Num(sz.width)))
        dy == JMul(Num(Abs(ds.y - p[2])), JDiv(vp.zoom, Num(sz.height)))
    IN  [x |-> JSub(ds.startCenter.x, JMul(dx, Num(20))),
         y |-> JSub(ds.startCenter.y, JMul(dy, Num(20)))]

(* the center handleMouseMove computes for a move to client pixel p *)
PannedCenter(ds, vp, sz, p) ==
    LET dx == JMul(Num(p[1] - ds.x), JDiv(vp.zoom, Num(sz.width)))
        dy == JMul(Num(ds.y - p[2]), JDiv(vp.zoom, Num(sz.height)))
    IN  [x |-> JSub(ds.startCenter.x, JMul(dx, Num(20))),
         y |-> JSub(ds.startCenter.y, JMul(dy, Num(20)))]

(* handleMouseMove: nothing while dragStart.x is falsy (0) *)
HandleMouseMove(p) ==
    /\ Tick
    /\ IF dragStart.x = 0
       THEN UNCHANGED <<viewport, zoomLevel>>
       ELSE HandleViewportChange(
                [viewport EXCEPT !.center = PannedCenter(dragStart, viewport, size, p)])
    /\ lastEvent' = [type |-> "mousemove", x |-> p[1], y |-> p[2],
                     ended |-> IF lastEvent.type \in {"mousedown", "mousemove"}
                               THEN lastEvent.ended ELSE NoDragLog]
    /\ UNCHANGED <<size, dragStart, equations, nextId, tangentPoint>>

(* handleMouseUp, also the onMouseLeave handler *)
HandleMouseUp ==
    /\ Tick
    /\ dragStart' = NoDrag
    /\ HandleViewportChange(viewport)
    /\ lastEvent' = [type |-> "mouseup",
                     ended |-> IF lastEvent.type = "mousemove" /\ dragStart.x # 0
                               THEN [from |-> <<dragStart.x, dragStart.y>>,
                                     to |-> <<lastEvent.x, lastEvent.y>>,
                                     startCenter |-> dragStart.startCenter]
                               ELSE NoDragLog]
    /\ UNCHANGED <<size, equations, nextId, tangentPoint>>

-----------------------------------------------------------------------------
(* GraphControls: the equation list *)

(* addEquation with the text of the input field: a blank text is refused   *)
(* with a toast, any other text is appended, trimmed; validateExpression   *)
(* is not called                                                           *)
AddEquation(text) ==
    /\ Tick
    /\ LET expression == Trim(text)
       IN  IF expression = <<>>
           THEN UNCHANGED <<equations, nextId>>
           ELSE /\ equations' = Append(equations, NewEquation(nextId + 1, expression))
                /\ nextId' = nextId + 1
    /\ lastEvent' = [type |-> "add", text |-> text]
    /\ UNCHANGED <<viewport, zoomLevel, size, dragStart, tangentPoint>>

(* removeEquation(id), from the button of a listed equation *)
RemoveEquation(id) ==
    /\ Tick
    /\ \E i \in 1..Len(equations) : equations[i].id = id
    /\ equations' = SelectSeq(equations, LAMBDA eq : eq.id # id)
    /\ lastEvent' = [type |-> "remove", id |-> id]
    /\ UNCHANGED <<viewport, zoomLevel, size, dragStart, nextId, tangentPoint>>

(* Clear All, shown while the list is not empty: setEquations([]) *)
ClearAll ==
    /\ Tick
    /\ Len(equations) > 0
    /\ equations' = <<>>
    /\ lastEvent' = [type |-> "clear"]
    /\ UNCHANGED <<viewport, zoomLevel, size, dragStart, nextId, tangentPoint>>

-----------------------------------------------------------------------------
(* validateExpression *)

(* .replace(/(\d)x/g, '$1*x') *)
RECURSIVE ReplaceDigitX(_)
ReplaceDigitX(s) ==
    IF Len(s) < 2 THEN s
    ELSE IF s[1] \in Digits /\ s[2] = "x"
         THEN <<s[1], "*", "x">> \o ReplaceDigitX(SubSeq(s, 3, Len(s)))
         ELSE <<s[1]>> \o ReplaceDigitX(Tail(s))

(* .replace(/(x)(\d)/g, '$1^$2') *)
RECURSIVE ReplaceXDigit(_)
ReplaceXDigit(s) ==
    IF Len(s) < 2 THEN s
    ELSE IF s[1] = "x" /\ s[2] \in Digits
         THEN <<"x", "^", s[2]>> \o ReplaceXDigit(SubSeq(s, 3, Len(s)))
         ELSE <<s[1]>> \o ReplaceXDigit(Tail(s))

Sanitize(expression) == ReplaceXDigit(ReplaceDigitX(expression))

(* validateExpression: the sanitized text must compile and evaluate at     *)
(* x = -2 .. 2 without throwing; a NaN or infinite value does not throw    *)
validateExpression(expression) ==
    IF Trim(expression) = <<>>
    THEN [isValid |-> FALSE, error |-> "Empty expression"]
    ELSE LET sanitized == Sanitize(expression)
         IN  IF ~MathParses(sanitized)
             THEN [isValid |-> FALSE, error |-> "Unexpected end of expression"]
             ELSE IF MathEvalThrows(sanitized)
                  THEN [isValid |-> FALSE, error |-> "Invalid symbol"]
                  ELSE [isValid |-> TRUE, error |-> ""]

-----------------------------------------------------------------------------
(* GraphDisplay: the click handler *)

(* the square of the distance Math.sqrt(dx^2 + dy^2); the handler compares *)
(* distances, and the squares compare the same way                         *)
DistanceSq(point, graphCoords) ==
    JAdd(JMul(JSub(point.x, graphCoords.x), JSub(point.x, graphCoords.x)),
         JMul(JSub(point.y, graphCoords.y), JSub(point.y, graphCoords.y)))

(* before any point is met: minDistance = Infinity, closestPoint = null *)
NoClosest == [minDistanceSq |-> PosInf, closestPoint |-> null]

(* points.forEach with a point replacing the closest one also when it is   *)
(* just as near                                                            *)
RECURSIVE ClosestInPointsLastWins(_, _, _, _, _)
ClosestInPointsLastWins(points, i, eq, graphCoords, best) ==
    IF i > Len(points) THEN best
    ELSE LET d2   == DistanceSq(points[i], graphCoords)
             next == IF ~isNaN(points[i].y) /\ JLe(d2, best.minDistanceSq)
                     THEN [minDistanceSq |-> d2,
                           closestPoint  |-> [x |-> points[i].x,
                                              y |-> points[i].y,
                                              equation |-> eq.expression,
                                              color |-> eq.color]]
                     ELSE best
         IN  IF next.closestPoint = null
             THEN ClosestInPointsLastWins(points, i + 1, eq, graphCoords, NoClosest)
             ELSE ClosestInPointsLastWins(points, i + 1, eq, graphCoords, next)

(* points.forEach of handleCanvasClick from points[i] on, entered with the *)
(* closest point found so far: a valid point replaces it only when         *)
(* strictly nearer                                                         *)
RECURSIVE ClosestInPoints(_, _, _, _, _)
ClosestInPoints(points, i, eq, graphCoords, best) ==
    IF i > Len(points) THEN best
    ELSE LET d2   == DistanceSq(points[i], graphCoords)
             next == IF ~isNaN(points[i].y) /\ JLt(d2, best.minDistanceSq)
                     THEN [minDistanceSq |-> d2,
                           closestPoint  |-> [x |-> points[i].x,
                                              y |-> points[i].y,
                                              equation |-> eq.expression,
                                              color |-> eq.color]]
                     ELSE best
         IN  IF next.closestPoint = null
             THEN ClosestInPoints(points, i + 1, eq, graphCoords, NoClosest)
             ELSE ClosestInPoints(points, i + 1, eq, graphCoords, next)

(* equations.forEach of handleCanvasClick from equations[k] on: invisible  *)
(* equations are skipped, minDistance and closestPoint carry over from one *)
(* equation to the next                                                    *)
RECURSIVE ClosestInEquations(_, _, _, _)
ClosestInEquations(eqs, k, graphCoords, best) ==
    IF k > Len(eqs) THEN best
    ELSE LET points == generatePoints(eqs[k].expression,
                                      JSub(graphCoords.x, Frac(1, 10)),
                                      JAdd(graphCoords.x, Frac(1, 10)),
                                      Frac(1, 100))
             next   == IF ~eqs[k].visible \/ Len(points) = 0 THEN best
                       ELSE ClosestInPoints(points, 1, eqs[k], graphCoords, best)
         IN  IF next.closestPoint = null
             THEN ClosestInEquations(eqs, k + 1, graphCoords, NoClosest)
             ELSE ClosestInEquations(eqs, k + 1, graphCoords, next)

(* the tangent point after the search of handleCanvasClick ended with best *)
ClickedTangent(best, oldTangent) ==
    IF best.closestPoint # null /\ JLt(best.minDistanceSq, Frac(1, 4))
    THEN LET derivative == calculateDerivative(best.closestPoint.equation,
                                               best.closestPoint.x)
         IN  IF derivative # null
             THEN [x |-> best.closestPoint.x, y |-> best.closestPoint.y,
                   equation |-> best.closestPoint.equation,
                   color |-> best.closestPoint.color,
                   derivative |-> derivative]
             ELSE oldTangent
    ELSE null

(* handleCanvasClick at canvas pixel p *)
HandleCanvasClick(p) ==
    /\ Tick
    /\ \E graphCoords \in {canvasToGraphCoords(Num(p[1]), Num(p[2]),
                                 calculateBounds(viewport, size), size)} :
       \E best \in {ClosestInEquations(equations, 1, graphCoords, NoClosest)} :
          tangentPoint' = ClickedTangent(best, tangentPoint)
    /\ lastEvent' = [type |-> "click", x |-> p[1], y |-> p[2]]
    /\ UNCHANGED <<viewport, zoomLevel, size, dragStart, equations, nextId>>

-----------------------------------------------------------------------------
(* The sampler and the other pure functions, called on their own. *)

MaxHalfRange == 2

(* sampling ranges [-r, r] with steps 1/2 and 1 *)
ShortRanges ==
    {<<Num(-r), Num(r), st>> : r \in 1..MaxHalfRange, st \in {Frac(1, 2), Num(1)}}

(* a range whose max is not a sample position *)
OffGridRanges == {<<Num(-1), Frac(5, 4), Frac(1, 2)>>}

GenExpressions ==
    {E_x2, E_x, E_2x, E_inv, E_step, E_bad, E_undef, E_xd, E_empty, E_blank}

(* the long calls: a jump after 999 points, an expression invalid at every *)
(* one of 1101 samples, the sampling of the initial render, and exactly    *)
(* 1000 sample positions                                                   *)
LongInputs ==
    {<<E_step, Num(-998), Num(5), Num(1)>>,
     <<E_undef, Num(0), Num(1100), Num(1)>>,
     <<E_x, Num(-11), Num(11), Frac(1, 50)>>,
     <<E_x, Num(1), Num(1000), Num(1)>>}

GenInputs ==
    {<<e, r[1], r[2], r[3]>> :
        e \in GenExpressions, r \in ShortRanges \cup OffGridRanges}
        \cup LongInputs

GenIdle == [pc |-> "idle", g |-> GenInit(E_empty, Num(0), Num(0), Num(1))]
CallIdle == [fn |-> "none"]

UIInit ==
    /\ viewport = [center |-> [x |-> Num(0), y |-> Num(0)], zoom |-> Num(1)]
    /\ zoomLevel = Num(1)
    /\ size = [width |-> 800, height |-> 600]
    /\ dragStart = NoDrag
    /\ equations = <<>>
    /\ nextId = 0
    /\ tangentPoint = null
    /\ lastEvent = [type |-> "mount"]
    /\ steps = 0

UIvars == <<viewport, zoomLevel, size, dragStart, equations, nextId,
            tangentPoint, lastEvent, steps>>

(* the viewports, canvas sizes and pixels of the calls *)
CallZooms == {Frac(1, 2), Num(1), Frac(11, 10), Num(2)}
CallCenters == {[x |-> Num(0), y |-> Num(0)], [x |-> Num(1), y |-> Num(-2)]}
CallViewports == {[center |-> c, zoom |-> z] : c \in CallCenters, z \in CallZooms}
CallSizes == {[width |-> 800, height |-> 600], [width |-> 400, height |-> 400]}
CallPixels == {<<0, 0>>, <<400, 300>>, <<123, 457>>, <<800, 600>>}
DerivativeXs == {Num(-1), Num(0), Num(1), Num(2), Frac(1, 10000)}

MaxRenderEqs == 1
RenderExpressions == {E_x, E_step, E_inv, E_bad}
RenderZooms == {Frac(1, 2), Num(1), Num(2)}

RECURSIVE SeqsUpTo(_, _)
SeqsUpTo(S, n) ==
    IF n = 0 THEN {<<>>}
    ELSE LET shorter == SeqsUpTo(S, n - 1)
         IN  shorter \cup {Append(q, e) : q \in shorter, e \in S}

(* equation lists as addEquation builds them: ids in order of creation *)
RenderLists ==
    {[i \in 1..Len(q) |-> NewEquation(i, q[i])] :
        q \in SeqsUpTo(RenderExpressions, MaxRenderEqs)}

(* a call generatePoints(expression, min, max, step) begins *)
GenStart(expression, min, max, step) ==
    /\ gen.pc = "idle"
    /\ call = CallIdle
    /\ gen' = [pc |-> IF Trim(expression) = <<>> THEN "done" ELSE "loop",
               g  |-> GenInit(expression, min, max, step)]
    /\ UNCHANGED <<UIvars, call>>

(* the loop: test the condition, run the body and x += step, or leave *)
GenStep ==
    /\ gen.pc = "loop"
    /\ gen' = IF GenCond(gen.g) THEN [gen EXCEPT !.g = GenBody(gen.g)]
                                ELSE [gen EXCEPT !.pc = "done"]
    /\ UNCHANGED <<UIvars, call>>

(* calculateDerivative(expression, x) *)
CallDerivative(expression, x) ==
    /\ gen.pc = "idle"
    /\ call = CallIdle
    /\ call' = [fn |-> "calculateDerivative", expression |-> expression,
                x |-> x, result |-> calculateDerivative(expression, x)]
    /\ UNCHANGED <<UIvars, gen>>

(* canvasToGraphCoords of a pixel, then scaleX / scaleY of the result *)
CallRoundTrip(vp, sz, p) ==
    /\ gen.pc = "idle"
    /\ call = CallIdle
    /\ LET bounds == calculateBounds(vp, sz)
           graph  == canvasToGraphCoords(Num(p[1]), Num(p[2]), bounds, sz)
       IN  call' = [fn |-> "roundTrip", viewport |-> vp, size |-> sz,
                    p |-> [x |-> Num(p[1]), y |-> Num(p[2])],
                    bounds |-> bounds, graph |-> graph,
                    pixel |-> [x |-> scaleX(graph.x, bounds, sz),
                               y |-> scaleY(graph.y, bounds, sz)]]
    /\ UNCHANGED <<UIvars, gen>>

(* one run of the redraw effect *)
CallRedraw(eqs, vp, zl, sz) ==
    /\ gen.pc = "idle"
    /\ call = CallIdle
    /\ call' = [fn |-> "redraw", equations |-> eqs, viewport |-> vp,
                zoomLevel |-> zl, size |-> sz,
                bounds |-> calculateBounds(vp, sz),
                drawn |-> Redraw(eqs, vp, zl, sz)]
    /\ UNCHANGED <<UIvars, gen>>

CoreInit == UIInit /\ gen = GenIdle /\ call = CallIdle

CoreNext ==
    \/ \E i \in GenInputs : GenStart(i[1], i[2], i[3], i[4])
    \/ GenStep
    \/ \E e \in GenExpressions, x \in DerivativeXs : CallDerivative(e, x)
    \/ \E vp \in CallViewports, sz \in CallSizes, p \in CallPixels :
            CallRoundTrip(vp, sz, p)
    \/ \E eqs \in RenderLists, z \in RenderZooms, zl \in RenderZooms :
            CallRedraw(eqs, [center |-> [x |-> Num(0), y |-> Num(0)], zoom |-> z],
                       zl, [width |-> 800, height |-> 600])

SpecCore == CoreInit /\ [][CoreNext]_vars

-----------------------------------------------------------------------------
(* The viewport under the zoom controls, reset view, resizing and panning.  *)

SliderValues == {Frac(1, 10), Frac(3, 2), Num(3)}
Sizes == {[width |-> 800, height |-> 600], [width |-> 400, height |-> 400]}
(* client pixels over the canvas, three in a row; clientX is never 0     *)
(* there, the canvas lying to the right of the sidebar's border         *)
Pixels == {<<360, 340>>, <<400, 300>>, <<440, 260>>}

Init == UIInit /\ gen = GenIdle /\ call = CallIdle

Next ==
    \/ \E v \in SliderValues : ZoomSlider(v)
    \/ ZoomPlus
    \/ ZoomMinus
    \/ ResetView
    \/ \E sz \in Sizes : UpdateSize(sz)
    \/ \E p \in Pixels : HandleMouseDown(p)
    \/ \E p \in Pixels : HandleMouseMove(p)
    \/ HandleMouseUp

Spec == Init /\ [][Next]_vars

-----------------------------------------------------------------------------
(* The equation list and the tangent point, in the initial viewport. *)

InputTexts == {E_x2, E_x, E_one, E_bad, E_blank}
(* clicks on the origin, a quarter of a unit above it, and a unit above it *)
ClickPixels == {<<400, 300>>, <<400, 290>>, <<400, 260>>}

EqNext ==
    \/ \E t \in InputTexts : AddEquation(t)
    \/ \E id \in 1..nextId : RemoveEquation(id)
    \/ ClearAll
    \/ \E p \in ClickPixels : HandleCanvasClick(p)

SpecEq == Init /\ [][EqNext]_vars

-----------------------------------------------------------------------------
(* Properties of the viewport, under Spec. *)

(* C1: in every state the UI operations reach, viewport.zoom lies in       *)
(* [0.5, 2.0]; right after a zoom request of 3.0 it is 2.0, and right      *)
(* after a request of 0.1 it is 0.5.                                        *)
C1_ZoomWithinLimits ==
    /\ JLe(Frac(1, 2), viewport.zoom)
    /\ JLe(viewport.zoom, Num(2))
    /\ (lastEvent.type = "slider" /\ lastEvent.value = Num(3)
            => viewport.zoom = Num(2))
    /\ (lastEvent.type = "slider" /\ lastEvent.value = Frac(1, 10)
            => viewport.zoom = Frac(1, 2))

(* a zoom of 3.0 has been requested on a panned viewport and the zoom is   *)
(* at its upper limit                                                      *)
C1_RequestAboveLimit ==
    /\ lastEvent.type = "slider"
    /\ lastEvent.value = Num(3)
    /\ viewport.zoom = Num(2)
    /\ viewport.center # ResetViewport.center

(* C5: a mouse-move that follows a mouse-down leaves the graph point that  *)
(* was under the mouse-down pixel under the pixel of the move: the point   *)
(* under p0 in the bounds of the start viewport is the point under p1 in   *)
(* the bounds of the new viewport.                                         *)
C5_PanKeepsPointUnderCursor ==
    [][(lastEvent.type = "mousedown" /\ lastEvent'.type = "mousemove")
          => canvasToGraphCoords(Num(lastEvent'.x), Num(lastEvent'.y),
                                 calculateBounds(viewport', size'), size')
               = canvasToGraphCoords(Num(lastEvent.x), Num(lastEvent.y),
                                     calculateBounds(viewport, size), size)]_vars

(* a drag has moved the center of the viewport *)
C5_Dragged ==
    /\ lastEvent.type = "mousemove"
    /\ dragStart.startCenter # null
    /\ viewport.center # dragStart.startCenter

-----------------------------------------------------------------------------
(* Properties of generatePoints and of the pure functions, under SpecCore. *)

(* the sample at x is skipped by generatePoints: NaN or beyond the         *)
(* threshold                                                               *)
SkippedSample(expression, x) ==
    LET y == evaluateExpression(expression, x)
    IN  isNaN(y) \/ JGt(JAbs(y), Num(DISCONTINUITY_THRESHOLD))

(* C2: the sequence generatePoints returns has at most 1000 elements,      *)
(* valid points and NaN markers counted together.                          *)
C2_AtMostMaxPoints ==
    gen.pc = "done" => Len(gen.g.points) <= MAX_POINTS

(* a call has returned with the loop stopped by the cap *)
C2_CapReached ==
    /\ gen.pc = "done"
    /\ Len(gen.g.points) >= MAX_POINTS
    /\ JLe(gen.g.x, gen.g.max)

(* C3: in the sequence generatePoints returns, when the sample that        *)
(* follows a valid point is skipped (NaN or out of range) and a valid      *)
(* point comes after it, a NaN-flagged element lies between the two valid  *)
(* points.                                                                 *)
C3_MarkerAtSkippedSample ==
    gen.pc = "done" =>
        \A i \in 1..Len(gen.g.points) : \A j \in (i + 1)..Len(gen.g.points) :
            (/\ ~isNaN(gen.g.points[i].y)
             /\ ~isNaN(gen.g.points[j].y)
             /\ \A k \in (i + 1)..(j - 1) : isNaN(gen.g.points[k].y)
             /\ JLt(JAdd(gen.g.points[i].x, gen.g.step), gen.g.points[j].x)
             /\ SkippedSample(gen.g.expression,
                              JAdd(gen.g.points[i].x, gen.g.step)))
            => \E k \in (i + 1)..(j - 1) : isNaN(gen.g.points[k].y)

(* 1/x has been sampled over [-1, 1] with step 0.5 *)
C3_InverseSampled ==
    /\ gen.pc = "done"
    /\ gen.g.expression = E_inv
    /\ gen.g.min = Num(-1) /\ gen.g.max = Num(1) /\ gen.g.step = Frac(1, 2)
    /\ Len(gen.g.points) = 4

(* C4: in a render pass the polyline of every equation is broken at every  *)
(* NaN-marked point: no stroked segment starts or ends at a NaN point, and *)
(* none joins the points just before and just after a NaN point.           *)
C4_PolylineBrokenAtNaN ==
    call.fn = "redraw" =>
        \A e \in 1..Len(call.drawn) :
            \A i \in 1..Len(call.drawn[e].points) :
                isNaN(call.drawn[e].points[i].y) =>
                    /\ \A s \in call.drawn[e].segments : s[1] # i /\ s[2] # i
                    /\ <<i - 1, i + 1>> \notin call.drawn[e].segments

(* a render pass has sampled a NaN marker for an equation *)
C4_MarkerRendered ==
    /\ call.fn = "redraw"
    /\ \E e \in 1..Len(call.drawn) :
          \E i \in 1..Len(call.drawn[e].points) :
              isNaN(call.drawn[e].points[i].y)

(* C6: calculateDerivative(expression, x) returns null, and not NaN, when  *)
(* evaluateExpression yields NaN at x - h or at x + h.                     *)
C6_NullOnFailedEvaluation ==
    (/\ call.fn = "calculateDerivative"
     /\ \/ isNaN(evaluateExpression(call.expression, JSub(call.x, DerivativeH)))
        \/ isNaN(evaluateExpression(call.expression, JAdd(call.x, DerivativeH))))
    => call.result = null /\ ~isNaN(call.result)

(* calculateDerivative has been called on an expression whose evaluation   *)
(* fails                                                                   *)
C6_FailedEvaluation ==
    /\ call.fn = "calculateDerivative"
    /\ isNaN(evaluateExpression(call.expression, JSub(call.x, DerivativeH)))

(* C9, as stated: every element of the sequence generatePoints builds has  *)
(* an x strictly greater than the x of the element before it.              *)
C9_StrictlyIncreasingX ==
    gen.pc # "idle" =>
        \A i \in 2..Len(gen.g.points) :
            JLt(gen.g.points[i - 1].x, gen.g.points[i].x)

(* C9, amended: an element that follows a valid point has a strictly       *)
(* greater x; an element that follows a NaN marker is a valid point with   *)
(* the x of the marker.                                                    *)
C9_IncreasingXButAtMarkers ==
    gen.pc # "idle" =>
        \A i \in 2..Len(gen.g.points) :
            IF isNaN(gen.g.points[i - 1].y)
            THEN /\ gen.g.points[i].x = gen.g.points[i - 1].x
                 /\ ~isNaN(gen.g.points[i].y)
            ELSE JLt(gen.g.points[i - 1].x, gen.g.points[i].x)

(* a call has returned a sequence with a NaN marker between valid points   *)
C9_MarkerReturned ==
    /\ gen.pc = "done"
    /\ \E i \in 2..(Len(gen.g.points) - 1) :
          /\ isNaN(gen.g.points[i].y)
          /\ ~isNaN(gen.g.points[i - 1].y)
          /\ ~isNaN(gen.g.points[i + 1].y)

(* C10: a pixel converted to graph coordinates by canvasToGraphCoords and  *)
(* back by scaleX / scaleY is the pixel itself, and the graph y of a pixel *)
(* is greater than the graph y of the pixel one row below it.              *)
C10_RoundTripIsIdentity ==
    call.fn = "roundTrip" =>
        /\ call.pixel = call.p
        /\ JLt(canvasToGraphCoords(call.p.x, JAdd(call.p.y, Num(1)),
                                   call.bounds, call.size).y,
               call.graph.y)

(* a pixel off the axes of the canvas has made the round trip, in a        *)
(* viewport that is neither centred nor at zoom 1                          *)
C10_RoundTripMade ==
    /\ call.fn = "roundTrip"
    /\ call.p = [x |-> Num(123), y |-> Num(457)]
    /\ call.viewport.zoom = Frac(11, 10)
    /\ call.viewport.center # ResetViewport.center
    /\ JLt(call.bounds.xMin, call.bounds.xMax)
    /\ JLt(call.bounds.yMin, call.bounds.yMax)

-----------------------------------------------------------------------------
(* Properties of the equation list and the tangent point, under SpecEq. *)

(* C7: whenever the tangent point is not null, its expression is that of a *)
(* visible equation of the list; removing that equation, or clearing the   *)
(* list, clears the tangent point.                                         *)
C7_TangentOnListedEquation ==
    tangentPoint # null =>
        \E i \in 1..Len(equations) :
            /\ equations[i].visible
            /\ equations[i].expression = tangentPoint.equation

(* an equation has just been removed, or the list cleared, after a click   *)
(* had set a tangent point                                                 *)
C7_ListChangedUnderTangent ==
    /\ lastEvent.type \in {"remove", "clear"}
    /\ tangentPoint # null

(* C8: every expression addEquation has appended to the list is one that   *)
(* validateExpression accepts; a text it rejects leaves the list as it     *)
(* was.                                                                    *)
C8_OnlyValidatedAppended ==
    \A i \in 1..Len(equations) :
        validateExpression(equations[i].expression).isValid

(* addEquation has just been called with a text validateExpression         *)
(* rejects with an error other than that of an empty text                  *)
C8_InvalidTextAdded ==
    /\ lastEvent.type = "add"
    /\ ~validateExpression(lastEvent.text).isValid
    /\ validateExpression(lastEvent.text).error # "Empty expression"

-----------------------------------------------------------------------------
(* Panning alone, from the viewports and canvas sizes the zoom controls,   *)
(* earlier drags and resizes leave behind.                                 *)

PanInit ==
    /\ viewport \in CallViewports
    /\ zoomLevel = Num(1)
    /\ size \in Sizes
    /\ dragStart = NoDrag
    /\ equations = <<>>
    /\ nextId = 0
    /\ tangentPoint = null
    /\ lastEvent = [type |-> "mount"]
    /\ steps = 0
    /\ gen = GenIdle
    /\ call = CallIdle

PanNext ==
    \/ \E p \in Pixels : HandleMouseDown(p)
    \/ \E p \in Pixels : HandleMouseMove(p)
    \/ HandleMouseUp

SpecPan == PanInit /\ [][PanNext]_vars

(* C11: with zoom and canvas size unchanged, when a drag by a pixel delta  *)
(* has ended and the next drag has moved by the opposite delta, the center *)
(* of the viewport is the center the first drag started from.              *)
C11_InversePanRestoresCenter ==
    (/\ lastEvent.type = "mousemove"
     /\ dragStart.x # 0
     /\ lastEvent.ended.startCenter # null
     /\ lastEvent.x - dragStart.x = lastEvent.ended.from[1] - lastEvent.ended.to[1]
     /\ lastEvent.y - dragStart.y = lastEvent.ended.from[2] - lastEvent.ended.to[2])
    => viewport.center = lastEvent.ended.startCenter

(* a drag that moved the center at a zoom other than 1 has been followed   *)
(* by the opposite drag, started at another pixel                          *)
C11_DraggedThereAndBack ==
    /\ lastEvent.type = "mousemove"
    /\ dragStart.x # 0
    /\ lastEvent.ended.startCenter # null
    /\ lastEvent.ended.from # lastEvent.ended.to
    /\ <<dragStart.x, dragStart.y>> # lastEvent.ended.to
    /\ dragStart.startCenter # lastEvent.ended.startCenter
    /\ lastEvent.x - dragStart.x = lastEvent.ended.from[1] - lastEvent.ended.to[1]
    /\ lastEvent.y - dragStart.y = lastEvent.ended.from[2] - lastEvent.ended.to[2]
    /\ viewport.zoom = Num(2)

-----------------------------------------------------------------------------
(* Further properties under SpecCore. *)

(* C12: the bounds calculateBounds gives for a viewport and a canvas size  *)
(* are centred on viewport.center, 20 / zoom wide and                      *)
(* (20 / zoom) * (height / width) high.                                    *)
C12_BoundsFromViewport ==
    call.fn \in {"roundTrip", "redraw"} =>
        /\ JSub(call.bounds.xMax, call.bounds.xMin)
             = JDiv(Num(20), call.viewport.zoom)
        /\ JSub(call.bounds.yMax, call.bounds.yMin)
             = JDiv(JMul(Num(20), Num(call.size.height)),
                    JMul(call.viewport.zoom, Num(call.size.width)))
        /\ JAdd(call.bounds.xMin, call.bounds.xMax)
             = JMul(Num(2), call.viewport.center.x)
        /\ JAdd(call.bounds.yMin, call.bounds.yMax)
             = JMul(Num(2), call.viewport.center.y)

(* bounds have been computed for a canvas that is not square, in a         *)
(* viewport off the origin at a zoom other than 1                          *)
C12_BoundsComputed ==
    /\ call.fn = "roundTrip"
    /\ call.size.width # call.size.height
    /\ call.viewport.zoom = Frac(1, 2)
    /\ call.viewport.center # ResetViewport.center

(* the number of sample positions min, min + step, ... that are <= max *)
SampleCount(g) ==
    IF JLt(g.max, g.min) THEN 0
    ELSE LET q == JDiv(JSub(g.max, g.min), g.step) IN (q.n \div q.d) + 1

(* the k-th sample position, from 0 *)
SampleX(g, k) == JAdd(g.min, JMul(Num(k), g.step))

(* the expression is valid at every sample position and makes no jump      *)
(* above the threshold from one to the next                                *)
SmoothOverSamples(g) ==
    /\ Trim(g.expression) # <<>>
    /\ \A k \in 0..(SampleCount(g) - 1) :
          /\ ~SkippedSample(g.expression, SampleX(g, k))
          /\ k > 0 =>
                JLe(JAbs(JSub(evaluateExpression(g.expression, SampleX(g, k)),
                              evaluateExpression(g.expression, SampleX(g, k - 1)))),
                    Num(DISCONTINUITY_THRESHOLD))

(* C13: for an expression valid at every sample and without jumps, over at *)
(* most 1000 sample positions, generatePoints returns exactly the points   *)
(* (x, f(x)) for x = min, min + step, ... up to and including max, in that *)
(* order and without NaN marker; "x^2" over [-2, 2] with step 1 gives      *)
(* (-2,4), (-1,1), (0,0), (1,1), (2,4).                                    *)
C13_OnePointPerSample ==
    gen.pc = "done" =>
        /\ (SampleCount(gen.g) <= MAX_POINTS /\ SmoothOverSamples(gen.g))
              => gen.g.points =
                    [k \in 1..SampleCount(gen.g) |->
                        [x |-> SampleX(gen.g, k - 1),
                         y |-> evaluateExpression(gen.g.expression,
                                                  SampleX(gen.g, k - 1))]]
        /\ (/\ gen.g.expression = E_x2
            /\ gen.g.min = Num(-2) /\ gen.g.max = Num(2) /\ gen.g.step = Num(1))
              => gen.g.points =
                    <<[x |-> Num(-2), y |-> Num(4)], [x |-> Num(-1), y |-> Num(1)],
                      [x |-> Num(0), y |-> Num(0)], [x |-> Num(1), y |-> Num(1)],
                      [x |-> Num(2), y |-> Num(4)]>>

(* "x^2" has been sampled over [-2, 2] with step 1 *)
C13_SquareSampled ==
    /\ gen.pc = "done"
    /\ gen.g.expression = E_x2
    /\ gen.g.min = Num(-2) /\ gen.g.max = Num(2) /\ gen.g.step = Num(1)
    /\ Len(gen.g.points) = 5
    /\ SmoothOverSamples(gen.g)

-----------------------------------------------------------------------------
(* Further properties of the viewport, under Spec. *)

(* C14: a mouse-move or a mouse-up / mouse-leave leaves viewport.zoom as   *)
(* it was, and a change through the zoom controls (slider, plus, minus)    *)
(* leaves viewport.center as it was.                                       *)
C14_PanKeepsZoomAndZoomKeepsCenter ==
    [][/\ lastEvent'.type \in {"mousemove", "mouseup"}
            => viewport'.zoom = viewport.zoom
       /\ lastEvent'.type \in {"slider", "plus", "minus"}
            => viewport'.center = viewport.center]_vars

(* a drag has moved the center at a zoom the controls had changed *)
C14_DraggedAfterZoom ==
    /\ lastEvent.type = "mousemove"
    /\ dragStart.x # 0
    /\ viewport.center # dragStart.startCenter
    /\ viewport.zoom = Frac(3, 2)

-----------------------------------------------------------------------------
(* Further properties of the tangent point, under SpecEq. *)

(* the graph coordinates of the click lastEvent records *)
ClickCoords ==
    canvasToGraphCoords(Num(lastEvent.x), Num(lastEvent.y),
                        calculateBounds(viewport, size), size)

(* the valid samples among points within 0.5 of a click at graphCoords, as *)
(* triples of the index k of their equation, the sample and the square of  *)
(* its distance to the click                                               *)
CandidatesOf(k, points, graphCoords) ==
    {<<k, points[i], DistanceSq(points[i], graphCoords)>> :
        i \in {j \in 1..Len(points) :
                  /\ ~isNaN(points[j].y)
                  /\ JLt(DistanceSq(points[j], graphCoords), Frac(1, 4))}}

(* the candidates of all visible equations, each sampled in the window of  *)
(* 0.1 on either side of the click, with step 0.01                         *)
ClickCandidates(graphCoords) ==
    UNION {CandidatesOf(s[1], s[2], graphCoords) :
              s \in {<<k, generatePoints(equations[k].expression,
                                         JSub(graphCoords.x, Frac(1, 10)),
                                         JAdd(graphCoords.x, Frac(1, 10)),
                                         Frac(1, 100))>> :
                        k \in {j \in 1..Len(equations) : equations[j].visible}}}

(* the tangent point handleCanvasClick sets is the candidate c *)
TangentIs(c) ==
    tangentPoint =
        [x |-> c[2].x, y |-> c[2].y,
         equation |-> equations[c[1]].expression,
         color |-> equations[c[1]].color,
         derivative |-> calculateDerivative(equations[c[1]].expression, c[2].x)]

(* C15: after a click, if a visible equation has a valid sample within 0.5 *)
(* of the click, the tangent point is a sample closest to the click, of    *)
(* the earliest equation that has one that close, with its derivative;     *)
(* otherwise the tangent point is null.                                    *)
C15_ClickSelectsClosestSample ==
    lastEvent.type = "click" =>
        \E graphCoords \in {ClickCoords} :
        \E candidates \in {ClickCandidates(graphCoords)} :
            IF candidates = {}
            THEN tangentPoint = null
            ELSE \E c \in candidates :
                    /\ \A o \in candidates :
                          /\ JLe(c[3], o[3])
                          /\ o[3] = c[3] => c[1] <= o[1]
                    /\ TangentIs(c)

(* a click has picked, of two different equations through the clicked      *)
(* point, the one listed first                                              *)
C15_TieBetweenEquations ==
    /\ lastEvent.type = "click"
    /\ tangentPoint # null
    /\ \E graphCoords \in {ClickCoords} :
       \E candidates \in {ClickCandidates(graphCoords)} :
       \E c \in candidates : \E o \in candidates :
          /\ c[1] < o[1]
          /\ equations[c[1]].expression # equations[o[1]].expression
          /\ o[3] = c[3]
          /\ \A a \in candidates : JLe(c[3], a[3])
          /\ TangentIs(c)

-----------------------------------------------------------------------------
(* Further properties of generatePoints, under SpecCore. *)

(* C16: a call of generatePoints evaluates the expression at most 1000     *)
(* times before it returns, also when the expression is invalid or out of  *)
(* range at every sampled x.                                               *)
C16_AtMostMaxEvaluations ==
    gen.g.evals <= MAX_POINTS

(* a call has returned without a single point, every sample skipped *)
C16_EverySampleSkipped ==
    /\ gen.pc = "done"
    /\ gen.g.evals > 0
    /\ gen.g.points = <<>>

(* C17: in the sequence generatePoints returns, every NaN marker is        *)
(* followed at once by a valid point with its x, and preceded at once by   *)
(* the valid point of the sample position just before, whose y differs     *)
(* from that of the point after the marker by more than 1e6; so no marker  *)
(* is first or last and no two markers are adjacent.                       *)
C17_MarkerBetweenJumpingPoints ==
    gen.pc = "done" =>
        \A i \in 1..Len(gen.g.points) :
            isNaN(gen.g.points[i].y) =>
                /\ 1 < i /\ i < Len(gen.g.points)
                /\ ~isNaN(gen.g.points[i + 1].y)
                /\ gen.g.points[i + 1].x = gen.g.points[i].x
                /\ ~isNaN(gen.g.points[i - 1].y)
                /\ gen.g.points[i - 1].x = JSub(gen.g.points[i].x, gen.g.step)
                /\ JGt(JAbs(JSub(gen.g.points[i + 1].y, gen.g.points[i - 1].y)),
                       Num(DISCONTINUITY_THRESHOLD))

(* a call has returned with a marker pushed as the 1000th element *)
C17_MarkerAtTheCap ==
    /\ gen.pc = "done"
    /\ Len(gen.g.points) > MAX_POINTS
    /\ isNaN(gen.g.points[MAX_POINTS].y)

-----------------------------------------------------------------------------
(* The two zooms of GraphingTool, under Spec. *)

(* C18: in every state the zoom controls, reset view and the panning       *)
(* events reach, the zoomLevel GraphingTool passes to GraphDisplay is      *)
(* viewport.zoom.                                                          *)
C18_ZoomLevelIsViewportZoom ==
    zoomLevel = viewport.zoom

(* a zoom control has just changed the zoom of the viewport *)
C18_ZoomChangedByControl ==
    /\ lastEvent.type \in {"slider", "plus", "minus"}
    /\ viewport.zoom # Num(1)

-----------------------------------------------------------------------------
(* Properties of the render pass, under SpecCore. *)

(* the loop variables at the start of the sampling of a render pass *)
RenderGen(expression, bounds, zl) ==
    GenInit(expression, JSub(bounds.xMin, Num(1)), JAdd(bounds.xMax, Num(1)),
            JDiv(Frac(2, 100), zl))

(* the expression is valid at every sample position of the range *)
ValidOverSamples(g) ==
    /\ Trim(g.expression) # <<>>
    /\ \A k \in 0..(SampleCount(g) - 1) :
          ~SkippedSample(g.expression, SampleX(g, k))

(* C19: in a render pass with zoomLevel equal to viewport.zoom, the points *)
(* sampled for a visible expression that is valid at every x reach the     *)
(* right edge of the visible range: the largest sampled x is at least      *)
(* bounds.xMax.                                                            *)
C19_SamplesReachRightEdge ==
    (call.fn = "redraw" /\ call.zoomLevel = call.viewport.zoom) =>
        \A e \in 1..Len(call.equations) :
            (/\ call.equations[e].visible
             /\ ValidOverSamples(RenderGen(call.equations[e].expression,
                                           call.bounds, call.zoomLevel)))
            => /\ Len(call.drawn[e].points) > 0
               /\ JLe(call.bounds.xMax,
                      call.drawn[e].points[Len(call.drawn[e].points)].x)

(* a render pass with the two zooms equal has sampled "x" up to the cap *)
C19_RenderCapped ==
    /\ call.fn = "redraw"
    /\ call.zoomLevel = call.viewport.zoom
    /\ Len(call.equations) = 1
    /\ call.equations[1].expression = E_x
    /\ Len(call.drawn[1].points) = MAX_POINTS

(* C20: whenever the tangent point is not null, its derivative is finite   *)
(* and the equation list is not empty, the render pass draws the tangent   *)
(* line and its anchor point, also when the derivative is 0.               *)
C20_TangentDrawn ==
    (/\ tangentPoint # null
     /\ IsNum(tangentPoint.derivative)
     /\ Len(equations) > 0)
    => RedrawTangent(tangentPoint, equations)

(* a click has set a tangent point with derivative 0 on a listed equation  *)
C20_HorizontalTangent ==
    /\ lastEvent.type = "click"
    /\ tangentPoint # null
    /\ tangentPoint.derivative = Num(0)
    /\ tangentPoint.equation = E_one
    /\ Len(equations) > 0

=============================================================================
